---- MODULE Spec2Model ----
(***************************************************************************)
(* The Crestron Home scripts: one run of main() of the full script (login, *)
(* then a Promise.all fan-out of seven requests) or of get-devices.js      *)
(* (login, then getSensors), against a hub that chooses every response.    *)
(* One action is one Node.js event-loop turn: the I/O callback together    *)
(* with the whole chain of promise continuations it triggers.              *)
(***************************************************************************)
EXTENDS Integers, Sequences, FiniteSets, TLC

VARIABLES script, pc, authKey, req, sent, out, ret, msg, values, nDone,
          file, exitCode, errOut, deviations

vars == <<script, pc, authKey, req, sent, out, ret, msg, values, nDone,
          file, exitCode, errOut, deviations>>

\* ---------------------------------------------------------------- bounds
\* number of requests of one run that the hub answers other than with the
\* canonical response (status 200, well-formed body in a single chunk)
MaxDeviations == 1

\* number of responses that are partly received at the same time
MaxReceiving == 1

\* ------------------------------------------------------------- constants
WEB_API_TOKEN == "C6p5Mtp57LCP"

Scripts == {"all", "getDevices"}

\* the array literal handed to Promise.all, in source order
BatchOps ==
  <<"devices", "sensors", "rooms", "scenes", "securityDevices", "mediaRooms", "playAction">>

BatchSet == {BatchOps[i] : i \in 1..Len(BatchOps)}

Ops == {"login"} \cup BatchSet

\* a fan-out that leaves the select-source command out
DataOpsReadsOnly(s) == IF s = "all" THEN BatchSet \ {"playAction"} ELSE {"sensors"}

\* the requests main() of each script issues after the login
DataOps(s) == IF s = "all" THEN BatchSet ELSE {"sensors"}

Path(op) ==
  CASE op = "login" -> "/login"
    [] op = "devices" -> "/devices"
    [] op = "sensors" -> "/sensors"
    [] op = "rooms" -> "/rooms"
    [] op = "scenes" -> "/scenes"
    [] op = "securityDevices" -> "/securitydevices"
    [] op = "mediaRooms" -> "/mediarooms"
    [] op = "playAction" -> "/mediarooms/1006/selectsource/53750"

Method(op) == IF op = "playAction" THEN "POST" ELSE "GET"

\* the prefix each wrapper puts in front of the error it rethrows
Prefix(op) ==
  CASE op = "login" -> "Failed to get auth key"
    [] op = "devices" -> "Failed to get devices"
    [] op = "sensors" -> "Failed to get sensors"
    [] op = "rooms" -> "Failed to get rooms"
    [] op = "scenes" -> "Failed to get scenes"
    [] op = "securityDevices" -> "Failed to get Security devices"
    [] op = "mediaRooms" -> "Failed to get media rooms"
    [] op = "playAction" -> "Failed to get media rooms"

\* name of the header that carries the credential of a request
HeaderName(op) ==
  IF op = "login" THEN "Crestron-RestAPI-AuthToken" ELSE "Crestron-RestAPI-AuthKey"

\* ------------------------------------------------------ the hub's answers
Statuses == {200, 401}

Keys == {"K1", "K2"}

\* A body is a sequence of chunks, a chunk a sequence of tokens.  Tokens:
\* "{" "}" the braces of an object; "ak:K" the member "authkey":"K";
\* "ak:" the member "authkey":""; an operation name n the member "n":[];
\* "null" the literal null; "<" a character no JSON text starts with.
KeyToken(k) == IF k = "K1" THEN "ak:K1" ELSE "ak:K2"

GoodBody(op, k) ==
  IF op = "login" THEN << <<"{", KeyToken(k), "}">> >> ELSE << <<"{", op, "}">> >>

OddBodies(op) ==
  IF op = "login"
  THEN { << <<"{">>, <<"ak:K1", "}">> >>,      \* the good body in two chunks
         << <<"{", "}">> >>,                   \* {}
         << <<"{", "ak:", "}">> >>,            \* {"authkey":""}
         << <<"null">> >>,
         << <<"<">> >>,                        \* an HTML error page
         << >> }                               \* no body at all
  ELSE { << <<"{">>, <<op, "}">> >>,
         << <<"{", "}">> >>,
         << <<"null">> >>,
         << <<"<">> >> }

Bodies(op) == {GoodBody(op, k) : k \in Keys} \cup OddBodies(op)
Canonical(op, status, body) ==
  status = 200 /\ \E k \in Keys : body = GoodBody(op, k)

\* ----------------------------------------------------------------- values
NoKey == "none"

NoValue == [kind |-> "none", hasAuthkey |-> FALSE, authkey |-> "", member |-> ""]

NullValue == [kind |-> "null", hasAuthkey |-> FALSE, authkey |-> "", member |-> ""]

Object(has, k, m) == [kind |-> "object", hasAuthkey |-> has, authkey |-> k, member |-> m]

MemberValue(tok) ==
  CASE tok = "ak:K1" -> Object(TRUE, "K1", "")
    [] tok = "ak:K2" -> Object(TRUE, "K2", "")
    [] tok = "ak:" -> Object(TRUE, "", "")
    [] OTHER -> Object(FALSE, "", tok)

IsMember(tok) == tok \in {"ak:K1", "ak:K2", "ak:"} \cup BatchSet

\* JSON.parse(data): ok is FALSE where JSON.parse throws
JSONParse(data) ==
  CASE data = <<"null">> -> [ok |-> TRUE, value |-> NullValue]
    [] data = <<"{", "}">> -> [ok |-> TRUE, value |-> Object(FALSE, "", "")]
    [] Len(data) = 3 /\ data[1] = "{" /\ IsMember(data[2]) /\ data[3] = "}" ->
         [ok |-> TRUE, value |-> MemberValue(data[2])]
    [] OTHER -> [ok |-> FALSE, value |-> NoValue]

NoMsg == <<>>

\* the destructuring pattern main() binds the joined array to, and the keys
\* of allData
Names ==
  <<"devices", "sensors", "rooms", "scenes", "securityDevices", "mediaRooms", "playAction">>

NoFile == [written |-> FALSE, fields |-> [n \in BatchSet |-> NoValue], whole |-> NoValue]

\* ------------------------------------------------------------ makeRequest
IdleReq ==
  [st |-> "idle", path |-> "", method |-> "", hname |-> "", hval |-> "",
   status |-> 0, rest |-> <<>>, data |-> <<>>, value |-> NoValue, err |-> "",
   got |-> <<>>, calls |-> 0, settles |-> 0]

\* Dispatch with the long-lived token in every credential header
DispatchToken(op, cred) ==
  [IdleReq EXCEPT !.st = "sent", !.path = Path(op), !.method = Method(op),
                  !.hname = HeaderName(op), !.hval = WEB_API_TOKEN]

\* the request makeRequest builds and sends with req.end()
Dispatch(op, cred) ==
  [IdleReq EXCEPT !.st = "sent", !.path = Path(op), !.method = Method(op),
                  !.hname = HeaderName(op), !.hval = cred]

Init ==
  /\ script \in Scripts
  /\ pc = "init"
  /\ authKey = NoKey
  /\ req = [op \in Ops |-> IdleReq]
  /\ sent = [op \in Ops |-> 0]
  /\ out = [op \in Ops |-> "none"]
  /\ ret = [op \in Ops |-> NoValue]
  /\ msg = [op \in Ops |-> NoMsg]
  /\ values = [i \in 1..Len(BatchOps) |-> NoValue]
  /\ nDone = 0
  /\ file = NoFile
  /\ exitCode = -1
  /\ errOut = NoMsg
  /\ deviations = 0

\* ------------------------------------------------------- promise plumbing
Truthy(v) == v.kind = "object" /\ v.hasAuthkey /\ v.authkey # ""

\* getAuthKey after makeRequest settled: r is the settled request
GetAuthKey(r) ==
  IF r.st = "rejected" THEN [out |-> "rejected", key |-> NoKey, msg |-> <<Prefix("login"), r.err>>]
  ELSE IF r.value.kind = "null"
    THEN [out |-> "rejected", key |-> NoKey,
          msg |-> <<Prefix("login"), "Cannot read properties of null">>]
  ELSE IF Truthy(r.value)
    THEN [out |-> "fulfilled", key |-> r.value.authkey, msg |-> NoMsg]
  ELSE [out |-> "rejected", key |-> NoKey, msg |-> <<Prefix("login"), "No auth key in response">>]

\* a wrapper whose catch block swallows the error and returns nothing
WrapperSwallow(op, r) ==
  IF r.st = "rejected" THEN [out |-> "fulfilled", value |-> NoValue, msg |-> NoMsg]
  ELSE [out |-> "fulfilled", value |-> r.value, msg |-> NoMsg]

\* getDevices ... playInLivingRoom after makeRequest settled
Wrapper(op, r) ==
  IF r.st = "rejected" THEN [out |-> "rejected", value |-> NoValue, msg |-> <<Prefix(op), r.err>>]
  ELSE [out |-> "fulfilled", value |-> r.value, msg |-> NoMsg]

IndexOf(op) == CHOOSE i \in 1..Len(BatchOps) : BatchOps[i] = op

\* a join that collects the results in completion order
SlotByCompletion(op, n) == n + 1

\* the slot of the joined array that Promise.all fills when the promise of
\* op fulfils, n promises having fulfilled before it
Slot(op, n) == IndexOf(op)

\* allData as main() assembles it from the destructured array
AllData(vals) == [n \in BatchSet |-> vals[CHOOSE i \in 1..Len(Names) : Names[i] = n]]

\* the summary block reads .devices/.rooms/.scenes of the first four results
SummaryThrows(vals) == \E i \in 1..4 : vals[i].kind = "null"

\* a catch block that logs the error and lets the process run on
MainCatchContinue(m) ==
  /\ pc' = pc
  /\ exitCode' = exitCode
  /\ errOut' = m

\* main()'s catch block
MainCatch(m) ==
  /\ pc' = "exited"
  /\ exitCode' = 1
  /\ errOut' = m

\* main() resumed by the settled login
AfterLogin(r) ==
  LET g == GetAuthKey(r) IN
  /\ out' = [out EXCEPT !["login"] = g.out]
  /\ msg' = [msg EXCEPT !["login"] = g.msg]
  /\ ret' = [ret EXCEPT !["login"] = IF g.out = "fulfilled" THEN r.value ELSE NoValue]
  /\ UNCHANGED <<values, nDone, file>>
  /\ IF g.out = "fulfilled"
       THEN /\ authKey' = g.key
            /\ req' = [o \in Ops |-> IF o = "login" THEN r
                                     ELSE IF o \in DataOps(script) THEN Dispatch(o, g.key)
                                     ELSE req[o]]
            /\ sent' = [o \in Ops |-> IF o \in DataOps(script) THEN sent[o] + 1 ELSE sent[o]]
            /\ pc' = "awaitData"
            /\ UNCHANGED <<exitCode, errOut>>
       ELSE /\ req' = [req EXCEPT !["login"] = r]
            /\ MainCatch(g.msg)
            /\ UNCHANGED <<authKey, sent>>

\* main() of the full script resumed (or not yet) by a settled batch element
AfterBatch(op, r) ==
  LET w == Wrapper(op, r)
      vals == [values EXCEPT ![Slot(op, nDone)] = w.value]
  IN
  /\ req' = [req EXCEPT ![op] = r]
  /\ out' = [out EXCEPT ![op] = w.out]
  /\ msg' = [msg EXCEPT ![op] = w.msg]
  /\ ret' = [ret EXCEPT ![op] = w.value]
  /\ UNCHANGED <<authKey, sent>>
  /\ IF w.out = "rejected"
       THEN /\ MainCatch(w.msg)
            /\ UNCHANGED <<values, nDone, file>>
       ELSE /\ values' = vals
            /\ nDone' = nDone + 1
            /\ IF nDone + 1 < Len(BatchOps)
                 THEN UNCHANGED <<pc, exitCode, errOut, file>>
                 ELSE IF SummaryThrows(vals)
                   THEN /\ MainCatch(<<"Cannot read properties of null">>)
                        /\ UNCHANGED file
                   ELSE /\ file' = [NoFile EXCEPT !.written = TRUE, !.fields = AllData(vals)]
                        /\ pc' = "written"
                        /\ exitCode' = 0
                        /\ UNCHANGED errOut

\* main() of get-devices.js resumed by the settled getSensors
AfterSensors(r) ==
  LET w == Wrapper("sensors", r) IN
  /\ req' = [req EXCEPT !["sensors"] = r]
  /\ out' = [out EXCEPT !["sensors"] = w.out]
  /\ msg' = [msg EXCEPT !["sensors"] = w.msg]
  /\ ret' = [ret EXCEPT !["sensors"] = w.value]
  /\ UNCHANGED <<authKey, sent, values, nDone>>
  /\ IF w.out = "rejected"
       THEN MainCatch(w.msg) /\ UNCHANGED file
       ELSE IF w.value.kind = "null"
         THEN MainCatch(<<"Cannot read properties of null">>) /\ UNCHANGED file
         ELSE /\ file' = [NoFile EXCEPT !.written = TRUE, !.whole = w.value]
              /\ pc' = "written"
              /\ exitCode' = 0
              /\ UNCHANGED errOut

\* the promise of makeRequest settles as r; every continuation that this
\* makes runnable runs before the next I/O event
Settle(op, r) ==
  IF op = "login" THEN AfterLogin(r)
  ELSE IF script = "all" THEN AfterBatch(op, r)
  ELSE AfterSensors(r)

Running == pc \in {"awaitLogin", "awaitData"}

\* ---------------------------------------------------------------- actions
\* a main() that batches the login with the reads instead of awaiting it
MainStartBatched ==
  /\ pc = "init"
  /\ pc' = "awaitLogin"
  /\ req' = [o \in Ops |-> IF o = "login" THEN Dispatch("login", WEB_API_TOKEN)
                           ELSE IF o \in DataOps(script) THEN Dispatch(o, authKey)
                           ELSE req[o]]
  /\ sent' = [o \in Ops |-> IF o = "login" \/ o \in DataOps(script) THEN sent[o] + 1
                            ELSE sent[o]]
  /\ UNCHANGED <<script, authKey, out, ret, msg, values, nDone, file, exitCode, errOut,
                 deviations>>

\* main() up to its first await: getAuthKey() sends GET /login
MainStart ==
  /\ pc = "init"
  /\ pc' = "awaitLogin"
  /\ req' = [req EXCEPT !["login"] = Dispatch("login", WEB_API_TOKEN)]
  /\ sent' = [sent EXCEPT !["login"] = sent["login"] + 1]
  /\ UNCHANGED <<script, authKey, out, ret, msg, values, nDone, file, exitCode, errOut,
                 deviations>>

\* a promise that takes the state of every resolve or reject call
FulfilAgain(r, new) == [new EXCEPT !.calls = r.calls + 1, !.settles = r.settles + 1]

\* resolve(...) or reject(...) of the promise makeRequest returns: new is the
\* state asked for; a promise that has settled keeps its state
Fulfil(r, new) ==
  IF r.st \in {"resolved", "rejected"} THEN [r EXCEPT !.calls = @ + 1]
  ELSE [new EXCEPT !.calls = r.calls + 1, !.settles = r.settles + 1]

\* data += chunk
Accumulate(data, chunk) == data \o chunk

Cost(canonical) == IF canonical THEN 0 ELSE 1

\* the hub answers: https.request's callback runs, data = ''
Response(op, status, body) ==
  /\ Running
  /\ req[op].st = "sent"
  /\ Cardinality({o \in Ops : req[o].st = "recv"}) < MaxReceiving
  /\ deviations + Cost(Canonical(op, status, body)) <= MaxDeviations
  /\ deviations' = deviations + Cost(Canonical(op, status, body))
  /\ req' = [req EXCEPT ![op] = [@ EXCEPT !.st = "recv", !.status = status, !.rest = body]]
  /\ UNCHANGED <<script, pc, authKey, sent, out, ret, msg, values, nDone, file, exitCode,
                 errOut>>

\* res.on('data'): data += chunk
OnData(op) ==
  /\ Running
  /\ req[op].st = "recv"
  /\ req[op].rest # <<>>
  /\ req' = [req EXCEPT ![op] = [@ EXCEPT !.data = Accumulate(@, Head(req[op].rest)),
                                          !.got = Append(@, Head(req[op].rest)),
                                          !.rest = Tail(@)]]
  /\ UNCHANGED <<script, pc, authKey, sent, out, ret, msg, values, nDone, file, exitCode,
                 errOut, deviations>>

\* the request as res.on('end') leaves it
Ended(r) ==
  LET p == JSONParse(r.data) IN
  IF p.ok THEN Fulfil(r, [r EXCEPT !.st = "resolved", !.value = p.value])
  ELSE Fulfil(r, [r EXCEPT !.st = "rejected", !.err = "Invalid JSON response"])

\* res.on('end'): JSON.parse(data), resolve or reject
OnEnd(op) ==
  /\ Running
  /\ req[op].st = "recv"
  /\ req[op].rest = <<>>
  /\ Settle(op, Ended(req[op]))
  /\ UNCHANGED <<script, deviations>>

\* req.on('error'): reject(err)
OnError(op) ==
  /\ Running
  /\ req[op].st \in {"sent", "recv"}
  /\ deviations < MaxDeviations
  /\ deviations' = deviations + 1
  /\ Settle(op, Fulfil(req[op], [req[op] EXCEPT !.st = "rejected", !.err = "socket hang up"]))
  /\ UNCHANGED script

\* req.on('error') after the response has ended: reject(err) on a promise
\* that is already resolved, which resumes nothing
LateError(op) ==
  /\ Running
  /\ req[op].st = "resolved"
  /\ req[op].calls = 1
  /\ deviations < MaxDeviations
  /\ deviations' = deviations + 1
  /\ req' = [req EXCEPT ![op] =
               Fulfil(@, [@ EXCEPT !.st = "rejected", !.err = "socket hang up"])]
  /\ UNCHANGED <<script, pc, authKey, sent, out, ret, msg, values, nDone, file, exitCode,
                 errOut>>

\* the hub accepts the connection and never answers
Silence(op) ==
  /\ Running
  /\ req[op].st = "sent"
  /\ deviations < MaxDeviations
  /\ deviations' = deviations + 1
  /\ req' = [req EXCEPT ![op] = [@ EXCEPT !.st = "silent"]]
  /\ UNCHANGED <<script, pc, authKey, sent, out, ret, msg, values, nDone, file, exitCode,
                 errOut>>

Next ==
  \/ MainStart
  \/ \E op \in Ops, status \in Statuses : \E body \in Bodies(op) : Response(op, status, body)
  \/ \E op \in Ops : OnData(op)
  \/ \E op \in Ops : OnEnd(op)
  \/ \E op \in Ops : OnError(op)
  \/ \E op \in Ops : LateError(op)
  \/ \E op \in Ops : Silence(op)

Spec == Init /\ [][Next]_vars

\* every event that can happen does happen: the hub and the event loop are
\* as cooperative as possible
LiveSpec == Init /\ [][Next]_vars /\ WF_vars(Next)

\* ========================================================== the claims
Settled(op) == req[op].st \in {"resolved", "rejected"}

\* C1: when the hub reports an authentication failure (401) on a data call,
\* the client re-authenticates: the turn that settles the call has sent a
\* second /login, and no run sends more than two.
C1_ReauthOnAuthFailure ==
  /\ sent["login"] <= 2
  /\ \A op \in BatchSet : (Settled(op) /\ req[op].status = 401) => sent["login"] = 2

\* C2: at most one /login is ever sent; a data request is dispatched only
\* after that login has completed successfully, and a data request that
\* succeeds has done so with that single login.
C2_OneLoginBeforeData ==
  /\ sent["login"] <= 1
  /\ \A op \in BatchSet :
       /\ sent[op] > 0 =>
            /\ sent["login"] = 1
            /\ req["login"].st = "resolved"
            /\ out["login"] = "fulfilled"
            /\ authKey # NoKey
       /\ out[op] = "fulfilled" => sent["login"] = 1

C2_Witness ==
  \E op \in BatchSet : out[op] = "fulfilled" /\ sent["login"] = 1 /\ out["login"] = "fulfilled"

\* C3: getAuthKey returns a key only for a 200 response whose JSON body has
\* a non-empty authkey.
C3_KeyOnlyFrom200 ==
  out["login"] = "fulfilled" =>
    /\ req["login"].status = 200
    /\ JSONParse(req["login"].data).ok
    /\ Truthy(JSONParse(req["login"].data).value)

\* C4: a network error or an unparsable body fails the call, the failure
\* reaches main(), and the request was sent once and is never sent again.
C4_FailureSurfacedNoResend ==
  \A op \in Ops :
    /\ sent[op] <= 1
    /\ req[op].st = "rejected" =>
         /\ sent[op] = 1
         /\ out[op] = "rejected"
         /\ msg[op] = <<Prefix(op), req[op].err>>
         /\ errOut = msg[op]
         /\ pc = "exited"
         /\ exitCode = 1

C4_Witness ==
  \E op \in BatchSet :
    /\ req[op].st = "rejected"
    /\ req[op].err = "socket hang up"
    /\ sent[op] = 1
    /\ \E o \in BatchSet : out[o] = "fulfilled"

\* C5: in the fan-out, when one element has failed, the results of the
\* elements that succeeded are delivered in the output.
C5_OthersDelivered ==
  (script = "all" /\ \E f \in BatchSet : out[f] = "rejected") =>
    \A i \in 1..Len(BatchOps) :
      out[BatchOps[i]] = "fulfilled" =>
        file.written /\ file.fields[Names[i]] = req[BatchOps[i]].value

\* C6: every fulfilled element of the fan-out sits in the slot of its own
\* operation; when all have fulfilled the join holds all seven results, and
\* the file written from it binds each name to the result of its operation.
C6_JoinBindsResults ==
  script = "all" =>
    /\ \A i \in 1..Len(BatchOps) :
         out[BatchOps[i]] = "fulfilled" =>
           /\ values[i] = req[BatchOps[i]].value
           /\ values[i] # NoValue
    /\ (\A op \in BatchSet : out[op] = "fulfilled") => nDone = Len(BatchOps)
    /\ file.written =>
         \A i \in 1..Len(BatchOps) :
           file.fields[Names[i]] = req[BatchOps[i]].value

C6_Witness ==
  /\ script = "all"
  /\ file.written
  /\ \A i \in 1..Len(BatchOps) : file.fields[Names[i]].member = BatchOps[i]

\* C7: a request the hub never answers eventually fails (with a timeout).
C7_SilentCallSettles ==
  \A op \in Ops : (req[op].st = "silent") ~> (out[op] = "rejected")

\* C8: after a call has failed with a transport error the session key is
\* still the one the login returned and the client has not reached a
\* terminal state.
C8_UsableAfterFailure ==
  \A op \in BatchSet :
    (req[op].st = "rejected" /\ req[op].err = "socket hang up") =>
      /\ authKey = req["login"].value.authkey
      /\ pc # "exited"

\* C9: every data request ever dispatched carries, in the header
\* Crestron-RestAPI-AuthKey, the authkey of the one successful login
\* response, which is also the key main() holds; all requests of the batch
\* therefore carry the same key.
C9_RequestsCarrySessionKey ==
  \A op \in BatchSet :
    sent[op] > 0 =>
      /\ req[op].hname = "Crestron-RestAPI-AuthKey"
      /\ req[op].hval = authKey
      /\ authKey \in Keys
      /\ authKey = JSONParse(req["login"].data).value.authkey
      /\ \A o \in BatchSet : sent[o] > 0 => req[o].hval = req[op].hval

C9_Witness ==
  /\ script = "all"
  /\ authKey = "K2"
  /\ \A op \in BatchSet : sent[op] = 1 /\ req[op].hval = "K2"
  /\ \E op \in BatchSet : out[op] = "fulfilled"

\* C10: a data call succeeds only for a 2xx response.
C10_SuccessOnly2xx ==
  \A op \in BatchSet : out[op] = "fulfilled" => req[op].status \in 200..299

\* C11: the error main() reports for a failed operation names that operation:
\* it is not the error any other operation would report for the same failure.
C11_ErrorNamesOperation ==
  \A op \in Ops :
    (pc = "exited" /\ out[op] = "rejected") =>
      /\ errOut = msg[op]
      /\ \A o \in Ops \ {op} : errOut # <<Prefix(o), req[op].err>>

ReadOps == BatchSet \ {"playAction"}

\* C12: a read never returns as a success a response that parses as JSON but
\* lacks the field of its collection.
C12_SchemaChecked ==
  \A op \in ReadOps :
    out[op] = "fulfilled" => (ret[op].kind = "object" /\ ret[op].member = op)

RECURSIVE Concat(_)
\* the concatenation of a sequence of chunks
Concat(chunks) == IF chunks = <<>> THEN <<>> ELSE Head(chunks) \o Concat(Tail(chunks))

\* C13: the promise of a request changes state at most once, whatever events
\* arrive; data is the concatenation of the chunks in arrival order; a
\* resolved promise holds the JSON parse of all the chunks of the response; a
\* rejected one was rejected by an unparsable concatenation or by an error
\* event that came before the end.
C13_SettlesOnceWithParse ==
  \A op \in Ops :
    /\ req[op].settles <= 1
    /\ req[op].settles = 1 <=> Settled(op)
    /\ req[op].data = Concat(req[op].got)
    /\ req[op].st = "resolved" =>
         /\ req[op].rest = <<>>
         /\ JSONParse(Concat(req[op].got)).ok
         /\ req[op].value = JSONParse(Concat(req[op].got)).value
    /\ req[op].st = "rejected" =>
         \/ req[op].err = "Invalid JSON response" /\ ~JSONParse(Concat(req[op].got)).ok
                                                  /\ req[op].rest = <<>>
         \/ req[op].err = "socket hang up"

C13_Witness ==
  \E op \in Ops : req[op].st = "resolved" /\ Len(req[op].got) = 2 /\ req[op].settles = 1

\* C14: a file is written only when the login and every operation main()
\* issued have succeeded, and then it holds a result for every key; once the
\* login or any operation has failed there is no file and the exit code is 1.
C14_FileOnlyWhenAllSucceeded ==
  /\ file.written =>
       /\ out["login"] = "fulfilled"
       /\ \A op \in DataOps(script) : out[op] = "fulfilled" /\ req[op].st = "resolved"
       /\ script = "all" => \A n \in BatchSet : file.fields[n] # NoValue
       /\ script = "getDevices" => file.whole = req["sensors"].value
       /\ pc = "written"
       /\ exitCode = 0
  /\ (\E op \in Ops : out[op] = "rejected") =>
       /\ ~file.written
       /\ pc = "exited"
       /\ exitCode = 1

C14_Witness ==
  /\ script = "all"
  /\ pc = "exited"
  /\ exitCode = 1
  /\ ~file.written
  /\ \E f \in BatchSet : out[f] = "rejected" /\ req[f].err = "Invalid JSON response"
  /\ Cardinality({op \in BatchSet : out[op] = "fulfilled"}) = Len(BatchOps) - 1

\* C15: in the full script the seven requests are all dispatched in the turn
\* in which the login succeeds, before any of them has a response, so the
\* POST select-source is sent exactly when the login succeeds, whatever
\* happens to the reads, and it stays sent.
C15_MutationAlwaysDispatched ==
  script = "all" =>
    /\ out["login"] = "fulfilled" <=> sent["playAction"] = 1
    /\ sent["playAction"] <= 1
    /\ sent["playAction"] = 1 =>
         /\ req["playAction"].st # "idle"
         /\ req["playAction"].method = "POST"
         /\ req["playAction"].path = "/mediarooms/1006/selectsource/53750"
    /\ (\E op \in BatchSet : req[op].st \notin {"idle", "sent"}) =>
         \A o \in BatchSet : sent[o] = 1 /\ req[o].st # "idle"

C15_Witness ==
  /\ script = "all"
  /\ pc = "exited"
  /\ exitCode = 1
  /\ ~file.written
  /\ sent["playAction"] = 1
  /\ req["playAction"].st \in {"sent", "resolved"}
  /\ \E f \in ReadOps : out[f] = "rejected"

====
